---- MODULE Spec2Model ----
(***************************************************************************)
(* Traceroute-Analyzer-MCP: the connection pool lease protocol of          *)
(* server.py / database.py, the analyzer of analyzer.py (enrichment,       *)
(* topology, anomaly filter), the TOON encoder of utils.py and the        *)
(* analysis tools of server.py.                                            *)
(*                                                                         *)
(* Conventions.  An optional value (a nullable SQL column, a pandas NaN or *)
(* None) is a sequence of length at most one: None is <<>>, Some(v) is     *)
(* <<v>>.  A text is a sequence of pieces; a piece is one character where  *)
(* the code looks at characters (the double quote, '|', newline, blank)    *)
(* and a run of other characters elsewhere.  Milliseconds are counted in   *)
(* thousandths, so that rounding to 2 decimals is rounding to a multiple   *)
(* of 10.                                                                  *)
(***************************************************************************)
EXTENDS Integers, Sequences, FiniteSets, TLC

VARIABLES dbPool,   \* server.py _db_pool: FALSE is None, TRUE is a live pool
          used,     \* connections the pool has handed out (SimpleConnectionPool._used)
          th,       \* per caller: the call in progress and its bookkeeping
          rel,      \* the relation / table given to the operation under study
          out,      \* what the operation returned
          step      \* which operation has run on rel

vars == <<dbPool, used, th, rel, out, step>>

None == <<>>
Some(v) == <<v>>
notna(x) == x # None
Val(x) == x[1]

(***************************************************************************)
(* Bounds                                                                  *)
(***************************************************************************)
NumThreads == 2
\* psycopg2 SimpleConnectionPool(maxconn=20), scaled down so that the
\* concurrent callers can exhaust it
MaxConn == 1

Threads == 1..NumThreads
Conns == 1..MaxConn

(***************************************************************************)
(* Connection pool and the four operations that lease from it              *)
(***************************************************************************)
AnalyzerOps == {"get_enriched_path", "detect_anomalies"}
ToolOps == {"list_tables", "describe_table"}
Ops == AnalyzerOps \cup ToolOps

\* A caller with no call in progress and nothing recorded.
NoCall == [op |-> "none", pc |-> "idle", conn |-> 0, leases |-> 0,
           returned |-> 0, queries |-> 0, exc |-> "none", pending |-> "none",
           ret |-> "none", raised |-> FALSE, log |-> <<>>]

\* Variant of the except clause that lets the exception out unlogged.
ExceptReraises(r) ==
    [r EXCEPT !.pc = "done", !.raised = TRUE, !.ret = "none"]

\* The except clause of the operation: analyzer.py logs and returns an empty
\* DataFrame, the server tools log and return an error text.
ExceptHandler(r) ==
    [r EXCEPT !.pc = "done",
              !.log = Append(@, [logger |-> r.op, failure |-> r.exc]),
              !.ret = IF r.op \in AnalyzerOps THEN "empty" ELSE "error_text"]

\* Variant without try/finally: putconn only after a block that did not raise.
PutconnOnlyOnSuccess(r) ==
    IF r.exc = "none" THEN [r EXCEPT !.conn = 0, !.returned = @ + 1] ELSE r

\* Leaving the with block of get_db_connection: the finally clause puts the
\* connection back whatever ended the block.
Finally(r) ==
    [r EXCEPT !.conn = 0, !.returned = @ + 1]

\* The caller invokes one of the operations.
Call(t, o) ==
    /\ th[t].pc \in {"idle", "done"}
    /\ th' = [th EXCEPT ![t] = [NoCall EXCEPT !.op = o, !.pc = "enter"]]
    /\ UNCHANGED <<dbPool, used, rel, out, step>>

\* get_db_connection up to its yield, pool missing and init_resources fails
\* again: raises, caught by the operation's except clause.
EnterNoPool(t) ==
    /\ th[t].pc = "enter"
    /\ ~dbPool
    /\ th' = [th EXCEPT ![t] = ExceptHandler([@ EXCEPT !.exc = "pool_not_initialized"])]
    /\ UNCHANGED <<dbPool, used, rel, out, step>>

\* get_db_connection up to its yield, getconn() raises: the pool is exhausted
\* (PoolError) or a new connection cannot be opened.
EnterGetconnFails(t) ==
    /\ th[t].pc = "enter"
    /\ dbPool' = TRUE      \* the pool existed, or init_resources just built it
    /\ th' = [th EXCEPT ![t] = ExceptHandler([@ EXCEPT !.exc =
                 IF Cardinality(used) >= MaxConn THEN "pool_exhausted"
                                                 ELSE "connect_failed"])]
    /\ UNCHANGED <<used, rel, out, step>>

\* get_db_connection up to its yield, getconn() hands out a free connection.
EnterLease(t) ==
    /\ th[t].pc = "enter"
    /\ dbPool' = TRUE
    /\ Cardinality(used) < MaxConn
    /\ \E c \in Conns \ used :
         /\ used' = used \cup {c}
         /\ th' = [th EXCEPT ![t] = [@ EXCEPT !.pc = "block", !.conn = c,
                                              !.leases = @ + 1]]
    /\ UNCHANGED <<rel, out, step>>

\* The query inside the with block: pd.read_sql / cursor.execute either
\* returns rows, returns none, or raises.  describe_table runs its first
\* query here and goes on to validate the table name.
Query(t) ==
    /\ th[t].pc = "block"
    /\ \E res \in {"rows", "no_rows", "raise"} :
         LET r == [th[t] EXCEPT !.queries = @ + 1]
         IN th' = [th EXCEPT ![t] =
                  IF res = "raise"
                  THEN [r EXCEPT !.pc = "finally", !.exc = "query_failed"]
                  ELSE IF r.op = "describe_table"
                  THEN [r EXCEPT !.pc = "validate"]
                  ELSE [r EXCEPT !.pc = "finally",
                                 !.pending = IF r.op = "list_tables" THEN "json"
                                             ELSE IF res = "rows" THEN "frame"
                                             ELSE "empty"]]
    /\ UNCHANGED <<dbPool, used, rel, out, step>>

\* describe_table: an invalid table name returns from inside the with block.
DescribeInvalid(t) ==
    /\ th[t].pc = "validate"
    /\ th' = [th EXCEPT ![t] = [@ EXCEPT !.pc = "finally",
                                         !.pending = "invalid_name_text"]]
    /\ UNCHANGED <<dbPool, used, rel, out, step>>

\* describe_table: the sample query on a valid table name.
DescribeSample(t) ==
    /\ th[t].pc = "validate"
    /\ \E res \in {"rows", "raise"} :
         th' = [th EXCEPT ![t] =
                  IF res = "raise"
                  THEN [@ EXCEPT !.pc = "finally", !.queries = @ + 1,
                                 !.exc = "query_failed"]
                  ELSE [@ EXCEPT !.pc = "finally", !.queries = @ + 1,
                                 !.pending = "json"]]
    /\ UNCHANGED <<dbPool, used, rel, out, step>>

\* Leaving the with block: finally putconn(conn), then either the except
\* clause (an exception is in flight) or the return.
Leave(t) ==
    /\ th[t].pc = "finally"
    /\ LET r == Finally(th[t])
       IN /\ used' = IF r.conn = 0 THEN used \ {th[t].conn} ELSE used
          /\ th' = [th EXCEPT ![t] =
                      IF r.exc # "none" THEN ExceptHandler(r)
                      ELSE [r EXCEPT !.pc = "done", !.ret = r.pending]]
    /\ UNCHANGED <<dbPool, rel, out, step>>

InitPool ==
    /\ dbPool \in BOOLEAN     \* init_resources() at import may have failed
    /\ used = {}
    /\ th = [t \in Threads |-> NoCall]
    /\ rel = <<>>
    /\ out = <<>>
    /\ step = "pool"

NextPool ==
    \E t \in Threads :
        \/ \E o \in Ops : Call(t, o)
        \/ EnterNoPool(t)
        \/ EnterGetconnFails(t)
        \/ EnterLease(t)
        \/ Query(t)
        \/ DescribeInvalid(t)
        \/ DescribeSample(t)
        \/ Leave(t)

SpecPool == InitPool /\ [][NextPool]_vars

(***************************************************************************)
(* Properties of the pool protocol (SpecPool)                              *)
(***************************************************************************)
InBlock(t) == th[t].pc \in {"block", "validate", "finally"}
AcquireFailures == {"pool_not_initialized", "pool_exhausted", "connect_failed"}

\* C1: lease discipline.  The connections out of the pool are exactly the
\* ones held by calls that are inside their with block, each such call holds
\* one connection and has leased once; a call outside its block holds none
\* and has given back what it leased; a finished call has leased exactly one
\* connection unless nothing could be leased (acquisition failed); hence with
\* no call in progress nothing is leased.
LeaseDiscipline ==
    /\ used = {th[t].conn : t \in {u \in Threads : th[u].conn # 0}}
    /\ \A t, u \in Threads : (t # u /\ th[t].conn # 0) => th[t].conn # th[u].conn
    /\ \A t \in Threads :
         /\ InBlock(t) => (th[t].conn # 0 /\ th[t].leases = 1 /\ th[t].returned = 0)
         /\ ~InBlock(t) => (th[t].conn = 0 /\ th[t].returned = th[t].leases)
         /\ th[t].pc = "done" =>
              (th[t].leases = 1 <=> th[t].exc \notin AcquireFailures)
         /\ th[t].leases <= 1
    /\ (\A t \in Threads : th[t].pc \in {"idle", "done"}) => used = {}

\* C1 witness: every caller is done, one after an exception inside the block
\* and one after describe_table's early return, with all leases returned.
LeaseDisciplineWitness ==
    /\ \A t \in Threads : th[t].pc = "done"
    /\ \E t \in Threads : th[t].exc = "query_failed" /\ th[t].returned = 1
    /\ \E t \in Threads : th[t].ret = "invalid_name_text" /\ th[t].returned = 1
    /\ used = {}

MaxHops == 3      \* longest path enumerated
MaxTtl == 4       \* largest ttl enumerated

T(s) == <<s>>     \* the text made of the single piece s

\* The geolocation columns of a traceroute row that found no ip_geolocation
\* row (LEFT JOIN): all NULL.
NoGeo == [city |-> None, region_name |-> None, country_name |-> None,
          latitude |-> None, longitude |-> None, asn_name |-> None,
          isp |-> None, asn_type |-> None]

\* Table ip_geolocation: the row joined to an address.  A NULL address never
\* joins.  The sample covers: full row, country only, city only (with a
\* double quote in the name), isp/asn only, a row for a private address, and
\* addresses without a row.
ip_geolocation(ip) ==
    CASE ip = Some(T("8.8.8.8")) ->
           [NoGeo EXCEPT !.city = Some(T("Mountain View")),
                         !.country_name = Some(T("United States")),
                         !.latitude = Some(37386), !.longitude = Some(-122084),
                         !.asn_name = Some(T("GOOGLE")), !.isp = Some(T("Google LLC"))]
      [] ip = Some(T("1.1.1.1")) ->
           [NoGeo EXCEPT !.country_name = Some(T("Australia"))]
      [] ip = Some(T("200.0.0.1")) ->
           [NoGeo EXCEPT !.city = Some(<<"Sao ", "\"", "Paulo", "\"">>),
                         !.isp = Some(<<"\"", "RNP", "\"">>)]
      [] ip = Some(T("9.9.9.9")) ->
           [NoGeo EXCEPT !.asn_name = Some(T("QUAD9")), !.isp = Some(T("Quad9"))]
      [] ip = Some(T("192.168.1.1")) ->
           [NoGeo EXCEPT !.city = Some(T("Lab")), !.country_name = Some(T("Brazil"))]
      [] OTHER -> NoGeo

\* Table traceroute without its ttl: (ip_address, rtt_ms) samples, rtt in
\* thousandths of a millisecond.
TraceRows ==
    { [ip_address |-> None,                   rtt_ms |-> Some(1000)],
      [ip_address |-> Some(<<>>),             rtt_ms |-> None],
      [ip_address |-> Some(T("192.168.1.1")), rtt_ms |-> Some(1204)],
      [ip_address |-> Some(T("8.8.8.8")),     rtt_ms |-> Some(2515)],
      [ip_address |-> Some(T("8.8.8.8")),     rtt_ms |-> None],
      [ip_address |-> Some(T("1.1.1.1")),     rtt_ms |-> Some(9931)],
      [ip_address |-> Some(T("200.0.0.1")),   rtt_ms |-> Some(12349)],
      [ip_address |-> Some(T("9.9.9.9")),     rtt_ms |-> Some(3000)],
      [ip_address |-> Some(T("4.4.4.4")),     rtt_ms |-> Some(2515)],
      [ip_address |-> Some(T("not-an-ip")),   rtt_ms |-> Some(7777)] }

\* One row of the enrichment query: traceroute LEFT JOIN ip_geolocation.
JoinRow(ttl, h) ==
    LET g == ip_geolocation(h.ip_address)
    IN [ttl |-> ttl, ip_address |-> h.ip_address, rtt_ms |-> h.rtt_ms,
        city |-> g.city, region_name |-> g.region_name,
        country_name |-> g.country_name, latitude |-> g.latitude,
        longitude |-> g.longitude, asn_name |-> g.asn_name, isp |-> g.isp,
        asn_type |-> g.asn_type]

\* The elements of a set of integers in ascending order (ORDER BY t.ttl ASC).
RECURSIVE Ascending(_)
Ascending(S) ==
    IF S = {} THEN <<>>
    ELSE LET m == CHOOSE x \in S : \A y \in S : x <= y
         IN <<m>> \o Ascending(S \ {m})

\* The relation the enrichment query returns for a test whose hops have the
\* ttls S and the traceroute rows f: ttl unique and ascending.
HopRelation(S, f) ==
    LET ttls == Ascending(S)
    IN [i \in 1..Cardinality(S) |-> JoinRow(ttls[i], f[i])]

\* The sets of ttls enumerated: up to MaxHops hops.
TtlSets == {X \in SUBSET (1..MaxTtl) : Cardinality(X) <= MaxHops}

(***************************************************************************)
(* analyzer.py                                                             *)
(***************************************************************************)
\* ipaddress.ip_address(ip).is_private on the sample addresses; a ValueError
\* (NULL, empty, malformed) is caught and gives False.
PrivateAddresses == {T("192.168.1.1")}
ParsableAddresses == {T("192.168.1.1"), T("8.8.8.8"), T("1.1.1.1"),
                      T("200.0.0.1"), T("9.9.9.9"), T("4.4.4.4")}

is_private_ip(ip) ==
    IF notna(ip) /\ Val(ip) \in ParsableAddresses
    THEN Val(ip) \in PrivateAddresses
    ELSE FALSE

\* round(2) of a value in thousandths: the nearest multiple of 10, a tie
\* going to the even hundredth (numpy).
Round2(d) ==
    LET q == d \div 10
        r == d % 10
    IN IF r < 5 THEN 10 * q
       ELSE IF r > 5 THEN 10 * (q + 1)
       ELSE IF q % 2 = 0 THEN 10 * q ELSE 10 * (q + 1)

\* df['rtt_ms'].diff(): NaN on the first row and wherever either operand is
\* missing.  A column read as all NULL is an object column of None, on which
\* the subtraction of two rows raises TypeError.
DiffRaises(rows) ==
    /\ Len(rows) >= 2
    /\ \A i \in 1..Len(rows) : rows[i].rtt_ms = None

\* Variant with fillna(0): a missing RTT counted as 0.0.
DiffMissingAsZero(rows, i) ==
    IF i = 1 THEN None
    ELSE LET cur == IF notna(rows[i].rtt_ms) THEN Val(rows[i].rtt_ms) ELSE 0
             prev == IF notna(rows[i-1].rtt_ms) THEN Val(rows[i-1].rtt_ms) ELSE 0
         IN Some(cur - prev)

Diff(rows, i) ==
    IF i > 1 /\ notna(rows[i].rtt_ms) /\ notna(rows[i-1].rtt_ms)
    THEN Some(Val(rows[i].rtt_ms) - Val(rows[i-1].rtt_ms))
    ELSE None

rtt_spike_ms(rows, i) ==
    LET d == Diff(rows, i)
    IN IF notna(d) THEN Some(Round2(Val(d))) ELSE None

\* Variant with a forward fill: the last country known before row i.
LastKnownCountry(rows, i) ==
    LET known == {j \in 1..(i-1) : notna(rows[j].country_name)}
    IN IF known = {} THEN None
       ELSE rows[CHOOSE j \in known : \A k \in known : k <= j].country_name

\* df['country_name'].shift(): the country of the row before, missing on the
\* first row.
prev_country(rows, i) ==
    IF i > 1 THEN rows[i-1].country_name ELSE None

calculate_jump(rows, i) ==
    LET cur == rows[i].country_name
        prev == prev_country(rows, i)
    IN IF notna(cur) /\ notna(prev) /\ cur # prev
       THEN Val(prev) \o <<" -> ">> \o Val(cur)
       ELSE <<>>

\* One row of the frame get_enriched_path returns (output_columns).
EnrichedRow(rows, i) ==
    [ttl |-> rows[i].ttl,
     ip_address |-> rows[i].ip_address,
     rtt_ms |-> rows[i].rtt_ms,
     is_private |-> is_private_ip(rows[i].ip_address),
     city |-> rows[i].city,
     country |-> rows[i].country_name,
     isp |-> rows[i].isp,
     asn |-> rows[i].asn_name,
     latitude |-> rows[i].latitude,
     longitude |-> rows[i].longitude,
     rtt_spike_ms |-> rtt_spike_ms(rows, i),
     geographic_jump |-> calculate_jump(rows, i)]

\* What an operation hands back: whether it raised, the frame or the graph
\* text it returned, and the number of errors it logged.
Result(raised, df, text, logged) ==
    [raised |-> raised, df |-> df, text |-> text, logged |-> logged]

get_enriched_path(r) ==
    IF r.db # "ok" THEN Result(FALSE, <<>>, <<>>, 1)
    ELSE IF r.rows = <<>> THEN Result(FALSE, <<>>, <<>>, 0)
    ELSE IF DiffRaises(r.rows) THEN Result(TRUE, <<>>, <<>>, 0)
    ELSE Result(FALSE, [i \in 1..Len(r.rows) |-> EnrichedRow(r.rows, i)], <<>>, 0)

\* label.replace('"', "'")
ReplaceQuotes(label) ==
    [k \in 1..Len(label) |-> IF label[k] = "\"" THEN "'" ELSE label[k]]

OrElse(x, default) == IF notna(x) THEN Val(x) ELSE default

\* The label of a hop before the quotes are replaced: None when the address
\* is NULL and neither branch replaces it.
Label(hop) ==
    IF hop.is_private THEN Some(Val(hop.ip_address) \o <<"\\n(Private)">>)
    ELSE IF notna(hop.city) \/ notna(hop.country)
    THEN Some(OrElse(hop.city, T("Unknown City")) \o <<", ">>
              \o OrElse(hop.country, T("Unknown Country")) \o <<"\\n">>
              \o OrElse(hop.isp, T("Unknown ISP")))
    ELSE hop.ip_address

\* node_id = f"hop_{int(hop['ttl'])}"
node_id(hop) == <<"hop_", hop.ttl>>

\* One node declaration line.  Calling replace on a None label raises
\* AttributeError, which nothing catches.
NodeRaises(hop) == Label(hop) = None

NodeLine(hop) ==
    [kind |-> "node", id |-> node_id(hop), label |-> ReplaceQuotes(Val(Label(hop)))]

\* The edge from hop i to hop i+1, weighted with records[i+1]['rtt_ms'].
EdgeWeight(df, i) == df[i+1].rtt_ms

EdgeLine(df, i) ==
    [kind |-> "edge", u |-> node_id(df[i]), v |-> node_id(df[i+1]),
     weight |-> EdgeWeight(df, i)]

\* "graph LR\n    Start --> End"
Placeholder == << [kind |-> "graph LR"],
                  [kind |-> "link", u |-> "Start", v |-> "End"] >>

generate_topology(r) ==
    LET e == get_enriched_path(r)
        df == e.df
        n == Len(df)
    IN IF e.raised THEN Result(TRUE, <<>>, <<>>, e.logged)
       ELSE IF df = <<>> THEN Result(FALSE, <<>>, Placeholder, e.logged)
       ELSE IF \E i \in 1..n : NodeRaises(df[i])
            THEN Result(TRUE, <<>>, <<>>, e.logged)
       ELSE Result(FALSE, <<>>,
                   << [kind |-> "graph LR"] >>
                     \o [i \in 1..n |-> NodeLine(df[i])]
                     \o [i \in 1..(n-1) |-> EdgeLine(df, i)],
                   e.logged)

\* The state of the pool protocol while a single operation is studied.
PoolAtRest ==
    /\ dbPool = TRUE
    /\ used = {}
    /\ th = [t \in Threads |-> NoCall]

InitAnalyzer ==
    /\ PoolAtRest
    /\ \/ \E S \in TtlSets : \E f \in [1..Cardinality(S) -> TraceRows] :
             rel = [db |-> "ok", rows |-> HopRelation(S, f)]
       \/ rel = [db |-> "fail", rows |-> <<>>]
    /\ out = <<>>
    /\ step = "input"

\* analyzer.get_enriched_path(test_uuid) on the relation of the test.
GetEnrichedPath ==
    /\ step = "input"
    /\ out' = get_enriched_path(rel)
    /\ step' = "get_enriched_path"
    /\ UNCHANGED <<dbPool, used, th, rel>>

\* analyzer.generate_topology(test_uuid) on the relation of the test.
GenerateTopology ==
    /\ step = "input"
    /\ out' = generate_topology(rel)
    /\ step' = "generate_topology"
    /\ UNCHANGED <<dbPool, used, th, rel>>

NextAnalyzer == GetEnrichedPath \/ GenerateTopology

SpecAnalyzer == InitAnalyzer /\ [][NextAnalyzer]_vars

(***************************************************************************)
(* Properties of the analyzer (SpecAnalyzer)                               *)
(***************************************************************************)
Enriched == step = "get_enriched_path" /\ ~out.raised
Abs(x) == IF x < 0 THEN -x ELSE x

\* C3: in every enriched path, rtt_spike_ms[i] is present exactly when i is
\* not the first hop and rtt_ms[i] and rtt_ms[i-1] are both known; it is then
\* the hundredth nearest to rtt_ms[i] - rtt_ms[i-1]; a missing RTT never
\* counts as 0.
RttSpikeRule ==
    Enriched =>
        \A i \in 1..Len(out.df) :
            LET hop == out.df[i]
                defined == i > 1 /\ notna(hop.rtt_ms) /\ notna(out.df[i-1].rtt_ms)
            IN /\ notna(hop.rtt_spike_ms) <=> defined
               /\ defined =>
                    LET d == Val(hop.rtt_ms) - Val(out.df[i-1].rtt_ms)
                        s == Val(hop.rtt_spike_ms)
                    IN s % 10 = 0 /\ Abs(s - d) <= 5

\* C3 witness: an enriched path with a spike that rounding changed, and a
\* later hop whose RTT is missing and whose spike is absent.
RttSpikeWitness ==
    /\ Enriched
    /\ \E i \in 2..Len(out.df) :
         /\ notna(out.df[i].rtt_spike_ms)
         /\ Val(out.df[i].rtt_spike_ms) # Val(out.df[i].rtt_ms) - Val(out.df[i-1].rtt_ms)
    /\ \E i \in 2..Len(out.df) :
         out.df[i].rtt_ms = None /\ out.df[i].rtt_spike_ms = None

\* C4: in every enriched path, geographic_jump[i] is non-empty exactly when
\* hop i has a predecessor and the countries of hops i-1 and i are both
\* known and differ; it is then "<country i-1> -> <country i>".
GeographicJumpRule ==
    Enriched =>
        \A i \in 1..Len(out.df) :
            LET hop == out.df[i]
                jumps == /\ i > 1
                         /\ notna(out.df[i-1].country) /\ notna(hop.country)
                         /\ out.df[i-1].country # hop.country
            IN /\ hop.geographic_jump # <<>> <=> jumps
               /\ jumps => hop.geographic_jump =
                    Val(out.df[i-1].country) \o <<" -> ">> \o Val(hop.country)

\* C4 witness: a path with a jump at hop 2 and a hop 3 of unknown country,
\* which shows no jump.
GeographicJumpWitness ==
    /\ Enriched
    /\ Len(out.df) = 3
    /\ out.df[2].geographic_jump = <<"United States", " -> ", "Australia">>
    /\ out.df[3].country = None
    /\ out.df[3].geographic_jump = <<>>

\* The label the topology is said to choose: private marker first, else the
\* geo label when any geolocation column of the hop is known, else the raw
\* address.
ClaimedLabel(hop) ==
    IF hop.is_private THEN Some(Val(hop.ip_address) \o <<"\\n(Private)">>)
    ELSE IF \/ notna(hop.city) \/ notna(hop.country) \/ notna(hop.isp)
            \/ notna(hop.asn) \/ notna(hop.latitude) \/ notna(hop.longitude)
    THEN Some(OrElse(hop.city, T("Unknown City")) \o <<", ">>
              \o OrElse(hop.country, T("Unknown Country")) \o <<"\\n">>
              \o OrElse(hop.isp, T("Unknown ISP")))
    ELSE hop.ip_address

Rendered == step = "generate_topology" /\ ~out.raised /\ out.text # Placeholder

\* C8: every node label of a rendered non-empty path is the label chosen by
\* the priority private > geo present (any geolocation column known) > raw
\* address, with every double quote replaced by a single quote.
LabelPriority ==
    Rendered =>
        LET df == get_enriched_path(rel).df
        IN \A i \in 1..Len(df) :
              /\ notna(ClaimedLabel(df[i]))
              /\ out.text[1 + i].label = ReplaceQuotes(Val(ClaimedLabel(df[i])))
              /\ \A k \in 1..Len(out.text[1 + i].label) :
                    out.text[1 + i].label[k] # "\""

\* C9: for a path of n hops generate_topology returns the placeholder graph
\* when n = 0, and otherwise the header, n node declarations with pairwise
\* distinct identifiers hop_<ttl> in ttl order, then n - 1 edges, the k-th
\* from hop k to hop k+1 carrying the unrounded rtt_ms of hop k+1.
TopologyStructure ==
    step = "generate_topology" =>
        LET n == Len(rel.rows)
            g == out.text
        IN /\ ~out.raised
           /\ n = 0 => g = Placeholder
           /\ n >= 1 =>
                /\ Len(g) = 1 + n + (n - 1)
                /\ g[1] = [kind |-> "graph LR"]
                /\ \A i \in 1..n : /\ g[1 + i].kind = "node"
                                   /\ g[1 + i].id = <<"hop_", rel.rows[i].ttl>>
                /\ \A i, j \in 1..n : i # j => g[1 + i].id # g[1 + j].id
                /\ \A k \in 1..(n - 1) :
                      g[1 + n + k] = [kind |-> "edge", u |-> g[1 + k].id,
                                      v |-> g[1 + k + 1].id,
                                      weight |-> rel.rows[k + 1].rtt_ms]

\* C10: get_enriched_path and generate_topology never raise, whatever the
\* relation holds (NULL or empty address, NULL rtt_ms, no geolocation).
NeverRaises ==
    step \in {"get_enriched_path", "generate_topology"} => ~out.raised

(***************************************************************************)
(* detect_anomalies                                                        *)
(***************************************************************************)
MaxRows == 3      \* longest threat relation enumerated

\* A threat flag as the driver hands it over: NULL, a boolean, a number (an
\* integer column, or the float column pandas makes of integers and NULLs)
\* or a string.  v is the Python repr of the value.
PyNone == [t |-> "none", v |-> "None"]
PyBool(b) == [t |-> "bool", v |-> IF b THEN "True" ELSE "False"]
PyNum(n) == [t |-> "num", v |-> ToString(n)]
PyStr(x) == [t |-> "str", v |-> x]

\* Python ==: a boolean is the number 1 or 0, numbers compare by value,
\* strings with strings, None with nothing else.
NumberOf(x) == IF x.t = "bool" THEN (IF x.v = "True" THEN "1" ELSE "0") ELSE x.v

PyEq(x, y) ==
    IF x.t \in {"bool", "num"} /\ y.t \in {"bool", "num"}
    THEN NumberOf(x) = NumberOf(y)
    ELSE x.t = y.t /\ x.v = y.v

\* Variant testing bool(x), Python truthiness, instead of membership.
PyTruthy(x) ==
    CASE x.t = "none" -> FALSE
      [] x.t = "str" -> x.v # ""
      [] OTHER -> NumberOf(x) # "0"

\* row.get(flag) in [True, 1, 'true', 'True']
InTruthyList(x) ==
    \E y \in {PyBool(TRUE), PyNum(1), PyStr("true"), PyStr("True")} : PyEq(x, y)

\* "; ".join(reasons)
RECURSIVE JoinWith(_, _)
JoinWith(list, sep) ==
    IF list = <<>> THEN <<>>
    ELSE IF Len(list) = 1 THEN <<list[1]>>
    ELSE <<list[1], sep>> \o JoinWith(Tail(list), sep)

get_reasons(row) ==
    JoinWith(
        (IF InTruthyList(row.threat_is_datacenter)
         THEN <<"High Probability of Datacenter/Proxy (threat_is_datacenter=True)">>
         ELSE <<>>)
        \o (IF InTruthyList(row.threat_is_tor)
            THEN <<"Known Tor Exit Node (threat_is_tor=True)">> ELSE <<>>)
        \o (IF InTruthyList(row.threat_is_proxy)
            THEN <<"Known Public Proxy (threat_is_proxy=True)">> ELSE <<>>),
        "; ")

\* One row of the frame detect_anomalies returns (output_cols).
AnomalyRow(row) ==
    [ttl |-> row.ttl, ip_address |-> row.ip_address, asn |-> row.asn_name,
     reasons |-> get_reasons(row)]

HasReasons(a) == a.reasons # <<>>

detect_anomalies(r) ==
    IF r.db # "ok" THEN Result(FALSE, <<>>, <<>>, 1)
    ELSE IF r.rows = <<>> THEN Result(FALSE, <<>>, <<>>, 0)
    ELSE Result(FALSE,
                SelectSeq([i \in 1..Len(r.rows) |-> AnomalyRow(r.rows[i])], HasReasons),
                <<>>, 0)

\* Sample of the (threat_is_datacenter, threat_is_tor, threat_is_proxy)
\* triples of the joined ip_geolocation row.
ThreatRows ==
    { <<PyNone, PyNone, PyStr("False")>>,
      <<PyBool(TRUE), PyNone, PyNone>>,
      <<PyNone, PyNum(1), PyNone>>,
      <<PyNum(0), PyBool(FALSE), PyStr("true")>>,
      <<PyStr("True"), PyStr("True"), PyBool(TRUE)>>,
      <<PyNone, PyNone, PyNone>>,
      <<PyStr("TRUE"), PyStr("1"), PyStr("yes")>>,
      <<PyNum(2), PyNum(0), PyStr("")>> }

\* The relations the anomaly query can return: it has no ORDER BY, so the
\* rows come with ttl ascending or descending.
ThreatRelation(n, f, asc) ==
    [i \in 1..n |->
       [ttl |-> IF asc THEN i ELSE n + 1 - i,
        ip_address |-> Some(<<"198.51.100.", ToString(i)>>),
        asn_name |-> IF f[i][1] = PyNone /\ f[i][2] = PyNone
                     THEN None ELSE Some(T("AS64500")),
        asn_type |-> None,
        threat_is_datacenter |-> f[i][1],
        threat_is_tor |-> f[i][2],
        threat_is_proxy |-> f[i][3]]]

InitAnomaly ==
    /\ PoolAtRest
    /\ \/ \E n \in 0..MaxRows : \E f \in [1..n -> ThreatRows] : \E asc \in BOOLEAN :
             rel = [db |-> "ok", rows |-> ThreatRelation(n, f, asc)]
       \/ rel = [db |-> "fail", rows |-> <<>>]
    /\ out = <<>>
    /\ step = "input"

\* analyzer.detect_anomalies(test_uuid) on the relation of the test.
DetectAnomalies ==
    /\ step = "input"
    /\ out' = detect_anomalies(rel)
    /\ step' = "detect_anomalies"
    /\ UNCHANGED <<dbPool, used, th, rel>>

NextAnomaly == DetectAnomalies

SpecAnomaly == InitAnomaly /\ [][NextAnomaly]_vars

(***************************************************************************)
(* Properties of detect_anomalies (SpecAnomaly)                            *)
(***************************************************************************)
\* The values said to coerce to true.
StatedTrue == {PyBool(TRUE), PyNum(1), PyStr("true"), PyStr("True")}

Flagged(row) ==
    \/ row.threat_is_datacenter \in StatedTrue
    \/ row.threat_is_tor \in StatedTrue
    \/ row.threat_is_proxy \in StatedTrue

\* C5: detect_anomalies returns exactly the rows with at least one flag in
\* {true, 1, "true", "True"}, in input order, each with non-empty reasons;
\* every other flag value (NULL, "False", 0, other strings) flags nothing.
AnomalyFilter ==
    step = "detect_anomalies" =>
        LET rows == rel.rows
            sel == Ascending({i \in 1..Len(rows) : Flagged(rows[i])})
        IN /\ ~out.raised
           /\ Len(out.df) = Len(sel)
           /\ \A k \in 1..Len(out.df) :
                 /\ out.df[k].ttl = rows[sel[k]].ttl
                 /\ out.df[k].ip_address = rows[sel[k]].ip_address
                 /\ out.df[k].asn = rows[sel[k]].asn_name
                 /\ out.df[k].reasons # <<>>

\* C5 witness: a relation whose first row has only threat_is_proxy = "False"
\* and whose other two rows are flagged; the output is those two, in order.
AnomalyFilterWitness ==
    /\ step = "detect_anomalies"
    /\ Len(rel.rows) = 3
    /\ rel.rows[1].threat_is_proxy = PyStr("False")
    /\ rel.rows[1].threat_is_datacenter = PyNone /\ rel.rows[1].threat_is_tor = PyNone
    /\ Len(out.df) = 2
    /\ out.df[1].ttl = rel.rows[2].ttl /\ out.df[2].ttl = rel.rows[3].ttl
    /\ Len(out.df[2].reasons) = 5

(***************************************************************************)
(* utils.py: to_toon                                                       *)
(***************************************************************************)
MaxTableRows == 2   \* longest table enumerated

\* The declared columns: a single-column and a two-column frame.
ColumnLists == { <<T("col1")>>, <<T("col1"), T("col2")>> }

\* Sample cells of an object (text) column: NULL, a plain text, a text
\* holding the delimiter, a double quote, only a blank, a line break.
CellValues ==
    { None, Some(T("a")), Some(<<"a", "|", "b">>), Some(<<"x", "\"", "y">>),
      Some(T(" ")), Some(<<"a", "\n", "b">>) }


RECURSIVE Concat(_)
Concat(seqs) == IF seqs = <<>> THEN <<>> ELSE seqs[1] \o Concat(Tail(seqs))

\* na_rep="": a missing value is written as the empty text.
na_rep(cell) == IF notna(cell) THEN Val(cell) ELSE <<>>

\* csv.writer, QUOTE_MINIMAL with quotechar '"' and doublequote: a field
\* holding the delimiter, the quote character or a line break is wrapped in
\* quotes and its quotes are doubled.
Special == {"|", "\"", "\n", "\r"}
NeedsQuotes(field) == \E k \in 1..Len(field) : field[k] \in Special

DoubleQuotes(field) ==
    Concat([k \in 1..Len(field) |->
              IF field[k] = "\"" THEN <<"\"", "\"">> ELSE <<field[k]>>])

\* Variant quoting=QUOTE_ALL: every field wrapped.
QuoteAll(field) == <<"\"">> \o DoubleQuotes(field) \o <<"\"">>

QuoteMinimal(field) ==
    IF NeedsQuotes(field) THEN <<"\"">> \o DoubleQuotes(field) \o <<"\"">>
    ELSE field

\* csv.writer.writerow: the fields joined by sep="|" and ended by
\* lineterminator="\n"; a record that is one empty field is written as "".
writerow(fields) ==
    IF Len(fields) = 1 /\ fields[1] = <<>> THEN <<"\"", "\"", "\n">>
    ELSE Concat([k \in 1..Len(fields) |->
                   (IF k = 1 THEN <<>> ELSE <<"|">>) \o QuoteMinimal(fields[k])])
         \o <<"\n">>

\* df_out.to_csv(buffer, sep="|", index=False, na_rep="", lineterminator="\n")
to_csv(table) ==
    writerow(table.columns)
    \o Concat([i \in 1..Len(table.rows) |->
                 writerow([k \in 1..Len(table.columns) |-> na_rep(table.rows[i][k])])])

\* str.strip(): leading and trailing whitespace removed.
Whitespace == {" ", "\n", "\r", "\t"}

RECURSIVE lstrip(_)
lstrip(text) ==
    IF text # <<>> /\ text[1] \in Whitespace THEN lstrip(Tail(text)) ELSE text

RECURSIVE rstrip(_)
rstrip(text) ==
    IF text # <<>> /\ text[Len(text)] \in Whitespace
    THEN rstrip(SubSeq(text, 1, Len(text) - 1)) ELSE text

strip(text) == rstrip(lstrip(text))

\* Variant returning the buffer as written, final line break included.
ToToonNoStrip(table) == to_csv(table)

\* to_toon on a table of text columns (no datetime or float column to
\* reformat).
to_toon(table) == strip(to_csv(table))

InitToon ==
    /\ PoolAtRest
    /\ \E cols \in ColumnLists : \E r \in 0..MaxTableRows :
         \E rows \in [1..r -> [1..Len(cols) -> CellValues]] :
            rel = [columns |-> cols, rows |-> rows]
    /\ out = <<>>
    /\ step = "input"

\* to_toon(df)
ToToon ==
    /\ step = "input"
    /\ out' = Result(FALSE, <<>>, to_toon(rel), 0)
    /\ step' = "to_toon"
    /\ UNCHANGED <<dbPool, used, th, rel>>

NextToon == ToToon

SpecToon == InitToon /\ [][NextToon]_vars

(***************************************************************************)
(* Properties of to_toon (SpecToon)                                        *)
(***************************************************************************)
\* text.split(sep)
RECURSIVE SplitOn(_, _)
SplitOn(text, sep) ==
    IF \A k \in 1..Len(text) : text[k] # sep THEN <<text>>
    ELSE LET k == CHOOSE i \in 1..Len(text) :
                     text[i] = sep /\ \A j \in 1..(i - 1) : text[j] # sep
         IN <<SubSeq(text, 1, k - 1)>> \o SplitOn(SubSeq(text, k + 1, Len(text)), sep)

\* The cells written as they are: each line the texts joined by '|', the
\* lines joined by a line break, NULL as the empty text.
RECURSIVE Joined(_, _)
Joined(texts, sep) ==
    IF texts = <<>> THEN <<>>
    ELSE IF Len(texts) = 1 THEN texts[1]
    ELSE texts[1] \o <<sep>> \o Joined(Tail(texts), sep)

Verbatim(table) ==
    Joined(<<Joined(table.columns, "|")>>
             \o [i \in 1..Len(table.rows) |->
                   Joined([k \in 1..Len(table.columns) |-> na_rep(table.rows[i][k])], "|")],
           "\n")

Cells(table) ==
    {table.rows[i][k] : i \in 1..Len(table.rows), k \in 1..Len(table.columns)}

Holds(cell, chars) == notna(cell) /\ \E k \in 1..Len(Val(cell)) : Val(cell)[k] \in chars

\* C6 as stated: the output is the cells verbatim between '|' delimiters,
\* nothing quoted or escaped, whatever the cells hold.
NeverQuotes ==
    step = "to_toon" => out.text = strip(Verbatim(rel))

\* C6 amended: the output is the cells verbatim exactly when no cell holds
\* the delimiter, a double quote or a line break and no NULL (or empty) cell
\* is the only cell of its row; otherwise such cells come out wrapped in
\* double quotes.
QuotesOnlyWhenNeeded ==
    step = "to_toon" =>
        LET quoting == \/ \E c \in Cells(rel) : Holds(c, {"|", "\"", "\n", "\r"})
                       \/ Len(rel.columns) = 1 /\ \E c \in Cells(rel) : na_rep(c) = <<>>
        IN out.text = strip(Verbatim(rel)) <=> ~quoting

\* C6 witness: a two-column table with a NULL cell and no cell to quote,
\* encoded without any quote character.
QuotesOnlyWhenNeededWitness ==
    /\ step = "to_toon"
    /\ rel.columns = <<T("col1"), T("col2")>>
    /\ rel.rows = << <<Some(T("a")), None>>, <<None, Some(T("a"))>> >>
    /\ out.text = <<"col1", "|", "col2", "\n", "a", "|", "\n", "|", "a">>

ShapeHolds ==
    LET lines == SplitOn(out.text, "\n")
        c == Len(rel.columns)
    IN /\ Len(lines) = Len(rel.rows) + 1
       /\ SplitOn(lines[1], "|") = [k \in 1..c |-> rel.columns[k]]
       /\ \A i \in 2..Len(lines) : Len(SplitOn(lines[i], "|")) = c
       /\ out.text[Len(out.text)] # "\n"
       /\ (rel.rows = <<>> /\ c = 2) => out.text = <<"col1", "|", "col2">>

MaxUuids == 2     \* longest list of test identifiers enumerated

Uuids == {"uuid-a", "uuid-b"}

\* What the data source holds for a test, as the rows of the enrichment
\* query and of the anomaly query: a path of two hops, the second one
\* flagged; no row at all; or a data source that fails (the analyzer
\* degrades to an empty frame).
SampleTests ==
    { [db |-> "ok",
       hops |-> HopRelation({1, 2},
                  <<[ip_address |-> Some(T("192.168.1.1")), rtt_ms |-> Some(1204)],
                    [ip_address |-> Some(T("8.8.8.8")), rtt_ms |-> Some(2515)]>>),
       threats |-> ThreatRelation(2,
                  << <<PyNone, PyNone, PyNone>>, <<PyBool(TRUE), PyNone, PyNone>> >>,
                  TRUE)],
      [db |-> "ok", hops |-> <<>>, threats |-> <<>>],
      [db |-> "fail", hops |-> <<>>, threats |-> <<>>] }

\* The relation each query of the analyzer gets for a test.
HopsOf(test) == [db |-> test.db, rows |-> test.hops]
ThreatsOf(test) == [db |-> test.db, rows |-> test.threats]

\* Python values handed to json.dumps.
DataFrame(df) == [type |-> "DataFrame", value |-> df]
Dict(items) == [type |-> "dict", value |-> items]

\* if isinstance(test_uuids, str): test_uuids = [test_uuids]
AsList(test_uuids) ==
    IF test_uuids.type = "str" THEN <<test_uuids.value>> ELSE test_uuids.value

\* results = {}; for uuid in test_uuids: results[uuid] = ...: the keys in
\* the order of their first occurrence, each with the value assigned last.
RECURSIVE DictKeys(_)
DictKeys(list) ==
    IF list = <<>> THEN <<>>
    ELSE LET init == DictKeys(SubSeq(list, 1, Len(list) - 1))
             last == list[Len(list)]
         IN IF \E k \in 1..Len(init) : init[k] = last THEN init
            ELSE Append(init, last)

\* json.dumps: a dict of serializable values and a list of rows become JSON
\* text; the default encoder raises TypeError on a DataFrame, empty or not.
RECURSIVE json_dumps(_)
json_dumps(obj) ==
    CASE obj.type = "DataFrame" -> [raised |-> TRUE, json |-> <<>>]
      [] obj.type = "dict" ->
           IF \E k \in 1..Len(obj.value) : json_dumps(obj.value[k].value).raised
           THEN [raised |-> TRUE, json |-> <<>>]
           ELSE [raised |-> FALSE,
                 json |-> [k \in 1..Len(obj.value) |->
                             [key |-> obj.value[k].key,
                              value |-> json_dumps(obj.value[k].value).json]]]
      [] OTHER -> [raised |-> FALSE, json |-> obj.value]

\* path_enrichment(test_uuids) with the data source holding db.
path_enrichment(test_uuids, db) ==
    LET keys == DictKeys(AsList(test_uuids))
        results == Dict([k \in 1..Len(keys) |->
                           [key |-> keys[k],
                            value |-> DataFrame(get_enriched_path(HopsOf(db[keys[k]])).df)]])
        dumped == json_dumps(results)
    IN Result(dumped.raised, <<>>, dumped.json, 0)

\* anomaly_detection(test_uuid) with the data source holding db.
anomaly_detection(test_uuid, db) ==
    LET dumped == json_dumps(DataFrame(detect_anomalies(ThreatsOf(db[test_uuid])).df))
    IN Result(dumped.raised, <<>>, dumped.json, 0)

InitTools ==
    /\ PoolAtRest
    /\ \E db \in [Uuids -> SampleTests] :
         \/ \E u \in Uuids :
               rel = [test_uuids |-> [type |-> "str", value |-> u], db |-> db]
         \/ \E n \in 0..MaxUuids : \E l \in [1..n -> Uuids] :
               rel = [test_uuids |-> [type |-> "list", value |-> l], db |-> db]
    /\ out = <<>>
    /\ step = "input"

\* The tool path_enrichment is called with the identifiers.
PathEnrichment ==
    /\ step = "input"
    /\ out' = path_enrichment(rel.test_uuids, rel.db)
    /\ step' = "path_enrichment"
    /\ UNCHANGED <<dbPool, used, th, rel>>

\* The tool anomaly_detection is called with one identifier.
AnomalyDetection ==
    /\ step = "input"
    /\ rel.test_uuids.type = "str"
    /\ out' = anomaly_detection(rel.test_uuids.value, rel.db)
    /\ step' = "anomaly_detection"
    /\ UNCHANGED <<dbPool, used, th, rel>>

NextTools == PathEnrichment \/ AnomalyDetection

SpecTools == InitTools /\ [][NextTools]_vars

(***************************************************************************)
(* Properties of the tools (SpecTools)                                     *)
(***************************************************************************)
\* C11: path_enrichment returns, without raising, a JSON text with one
\* entry per requested identifier holding that identifier's enriched hops,
\* and anomaly_detection returns, without raising, a JSON text holding the
\* flagged hops, whether the analyzer returned hops, nothing, or degraded to
\* empty after a data-access failure.
ToolForwarding ==
    /\ step = "path_enrichment" =>
         LET ids == AsList(rel.test_uuids)
         IN /\ ~out.raised
            /\ \A k \in 1..Len(ids) :
                 \E e \in 1..Len(out.text) :
                    /\ out.text[e].key = ids[k]
                    /\ out.text[e].value = get_enriched_path(HopsOf(rel.db[ids[k]])).df
            /\ \A e \in 1..Len(out.text) : \E k \in 1..Len(ids) : out.text[e].key = ids[k]
    /\ step = "anomaly_detection" =>
         /\ ~out.raised
         /\ out.text = detect_anomalies(ThreatsOf(rel.db[rel.test_uuids.value])).df

====
